---------------------------- MODULE Spec2Model ----------------------------
(***************************************************************************)
(* A model of prepare.py: split_dataset (the Splitter), organize_conclusion *)
(* (the Record Flattener) and the script's main flow.                       *)
(*                                                                          *)
(* Values.  A Python value is a record with a field kind:                   *)
(*   list  [kind |-> "list", items |-> <<v1, ..., vn>>]                     *)
(*   dict  [kind |-> "dict", items |-> << <<k1, v1>>, ..., <<kn, vn>> >>]   *)
(*         (insertion order, which is the iteration order; keys distinct)   *)
(*   str   [kind |-> "str",  chars |-> <<c1, ..., cn>>]                     *)
(*   int   [kind |-> "int",  n |-> i]                                       *)
(*   None  [kind |-> "none"]                                                *)
(* These are the kinds json.load can return (line 90).                      *)
(*                                                                          *)
(* Ratios.  A ratio is [q |-> a, e |-> b] and stands for the real number    *)
(* a/Den + b * 1e-11: hundredths, plus a fine part in units of a tenth of   *)
(* the tolerance of line 21.  Arithmetic on ratios is exact; the rounding   *)
(* of binary floating point is not modelled.                                *)
(*                                                                          *)
(* The generator.  The process-wide generator of module random is a number  *)
(* rng in 0..RngMod-1.  random.seed(s) sets it to a function of s; a draw   *)
(* below n returns the lowest base-n digit of rng and removes it, so the    *)
(* draws of one sample are a deterministic function of the state at the     *)
(* sample's start, and every sequence of draws on at most MaxLen items is   *)
(* the outcome of some seed when RngMod >= MaxLen!.                         *)
(***************************************************************************)
EXTENDS Integers, Sequences, FiniteSets, TLC

VARIABLES
    data,        \* split harness: the dataset passed to split_dataset
    ratios,      \* split harness: [train, val, test] ratios
    random_seed, \* split harness: the seed argument
    rng,         \* the process-wide generator state of module random
    ret,         \* split harness: what the latest call of split_dataset returned
    first,       \* split harness: what its first call returned
    ncalls,      \* split harness: calls of split_dataset(data, ratios, seed) so far
    disturbed,   \* split harness: other code used the generator since the first call
    files,       \* the file system: name -> content (a sequence of characters)
    opened,      \* the names of the files held open
    fl_dataset,  \* organize_conclusion: its dataset argument
    fl_name,     \* organize_conclusion: its filename argument
    fl_pc,       \* organize_conclusion: "idle", "call", "open", "done" or "raised"
    fl_i,        \* organize_conclusion: entries of the loop of line 69 completed
    fl_error,    \* organize_conclusion: the error it raised
    pc,          \* main: the index in Program of the step to run next
    failed,      \* main: a step raised, the script is over
    log,         \* main: the steps run so far, "raise" after one that raised
    m_data,      \* main: data, line 90
    m_split      \* main: what split_dataset returned, line 93

-----------------------------------------------------------------------------
(* Bounds *)

\* longest dataset
MaxLen == 3
\* number of generator states (and of seeds)
RngMod == 6
\* calls of split_dataset the split harness makes with its arguments
MaxCalls == 2
\* most entries of a dataset given to organize_conclusion or to the script
MaxRecs == 2

(* Units of the ratio representation *)

\* a ratio's q counts hundredths (0.96 is q = 96, line 4)
Den == 100
\* the tolerance 1e-10 of line 21 in units of 1e-11
TolUnits == 10
\* random_seed=42, line 4
DefaultSeed == 42

-----------------------------------------------------------------------------
(* Helpers on sequences and sets *)

Range(s) == {s[i] : i \in 1..Len(s)}

NoDup(s) == \A i, j \in 1..Len(s) : s[i] = s[j] => i = j

Abs(x) == IF x < 0 THEN -x ELSE x

Min(S) == CHOOSE x \in S : \A y \in S : x <= y

RECURSIVE SetToList(_)
\* list(a set of small non-negative ints): CPython iterates such a set in
\* ascending order (the hash of an int is the int; values below the table
\* size 8 land in their own slot).
SetToList(S) ==
    IF S = {} THEN <<>> ELSE <<Min(S)>> \o SetToList(S \ {Min(S)})

SeqsUpTo(S, n) == UNION {[1..k -> S] : k \in 0..n}

None == [kind |-> "none"]

List(items) == [kind |-> "list", items |-> items]

Dict(items) == [kind |-> "dict", items |-> items]

-----------------------------------------------------------------------------
(* module random *)

\* random.seed(s): the state is a function of the seed alone
Seed(s) == s % RngMod

\* one draw below n from state s: <<the draw, the next state>>
Randbelow(s, n) == <<s % n, s \div n>>

RECURSIVE SampleLoop(_, _, _, _, _)
\* the loop of random.sample: for i in range(k): j = randbelow(n - i);
\* result[i] = pool[j]; pool[j] = pool[n - i - 1]
SampleLoop(pool, m, k, result, s) ==
    IF k = 0 THEN [err |-> FALSE, result |-> result, rng |-> s]
    ELSE LET d == Randbelow(s, m)
             j == d[1] + 1
         IN SampleLoop([pool EXCEPT ![j] = pool[m]], m - 1, k - 1,
                       Append(result, pool[j]), d[2])

\* random.sample(population, k) from state s; ValueError unless 0 <= k <= n
Sample(population, k, s) ==
    IF k < 0 \/ k > Len(population)
    THEN [err |-> TRUE, result |-> <<>>, rng |-> s]
    ELSE SampleLoop(population, Len(population), k, <<>>, s)

-----------------------------------------------------------------------------
(* split_dataset *)

\* a type check that lets only a list through
IsListOnly(d) == d.kind = "list"

\* isinstance(data, (list, dict)), line 18
IsListOrDict(d) == d.kind \in {"list", "dict"}

SumQ(r) == r.train.q + r.val.q + r.test.q

SumE(r) == r.train.e + r.val.e + r.test.e

\* a ratio check without the fine part: any sum of hundredths equal to Den passes
RatioSumOffCoarse(r) == r.train.q + r.val.q + r.test.q # Den

\* abs(train_ratio + val_ratio + test_ratio - 1.0) > 1e-10, line 21.  The sum
\* minus 1 is (SumQ - Den)/Den + SumE * 1e-11; the fine parts stay below
\* 1/Den - 1e-10, so a coarse part off by a hundredth or more always fails.
RatioSumOff(r) == SumQ(r) # Den \/ Abs(SumE(r)) > TolUnits

\* a size rounded to the nearest whole number instead of cut
IntTimesRounded(total, r) ==
    IF total * r.q < 0 THEN 0 ELSE (2 * total * r.q + Den) \div (2 * Den)

\* int(total * ratio), lines 38-39: total * (q/Den + e * 1e-11) truncated
\* toward zero.  |total * e * 1e-11| is below 1/Den, so the fine part moves
\* the result only when total * q / Den is a whole number.
IntTimes(total, r) ==
    LET p == total * r.q
    IN IF total = 0 THEN 0
       ELSE IF p > 0
            THEN IF p % Den = 0 /\ r.e < 0 THEN (p \div Den) - 1 ELSE p \div Den
       ELSE IF p < 0
            THEN IF (-p) % Den = 0 /\ r.e > 0
                 THEN -(((-p) \div Den) - 1) ELSE -((-p) \div Den)
       ELSE 0

RECURSIVE DictOf(_)
\* dict(pairs): a later pair with a key already present replaces its value
\* and keeps the key's place
DictOf(pairs) ==
    IF pairs = <<>> THEN <<>>
    ELSE LET n == Len(pairs)
             init == DictOf(SubSeq(pairs, 1, n - 1))
             p == pairs[n]
         IN IF \E i \in 1..Len(init) : init[i][1] = p[1]
            THEN [i \in 1..Len(init) |->
                     IF init[i][1] = p[1] THEN p ELSE init[i]]
            ELSE Append(init, p)

\* [items[i] for i in indices], lines 48-50 (indices count from 0)
Select(items, indices) == [j \in 1..Len(indices) |-> items[indices[j] + 1]]

\* subsets left as lists of pairs
RebuildAsList(d, picked) == [kind |-> "list", items |-> picked]

\* lines 53-56: back to a dict when the input was one
Rebuild(d, picked) ==
    IF d.kind = "dict" THEN Dict(DictOf(picked)) ELSE List(picked)

\* a raise: nothing is returned; the generator is left in state s
Raised(what, s) ==
    [ret |-> [outcome |-> what, train_set |-> None, val_set |-> None,
              test_set |-> None, split_indices |-> None],
     rng |-> s]

\* no reseeding: the draws go on from the state the generator is in
NoReseed(seed, s) == s

\* random.seed(random_seed), line 25, on generator state s
Reseed(seed, s) == Seed(seed)

\* nothing removed from the indices left to draw from
RemainingAll(indices, taken) == indices

\* list(set(all_indices) - set(train_indices)), lines 43 and 45
Remaining(indices, taken) == SetToList(Range(indices) \ Range(taken))

\* split_dataset(data, train_ratio, val_ratio, test_ratio, random_seed) run
\* on generator state s: what it returns or raises, and the state it leaves
split_dataset(d, r, seed, s) ==
    IF ~IsListOrDict(d) THEN Raised("TypeError", s)
    ELSE IF RatioSumOff(r) THEN Raised("RatioError", s)
    ELSE
      LET s0 == Reseed(seed, s)
          items == d.items
          total_size == Len(items)
          all_indices == [i \in 1..total_size |-> i - 1]
          train_size == IntTimes(total_size, r.train)
          val_size == IntTimes(total_size, r.val)
          tr == Sample(all_indices, train_size, s0)
      IN IF tr.err THEN Raised("SampleError", s0)
         ELSE
           LET train_indices == tr.result
               remaining_indices == Remaining(all_indices, train_indices)
               va == Sample(remaining_indices, val_size, tr.rng)
           IN IF va.err THEN Raised("SampleError", tr.rng)
              ELSE
                LET val_indices == va.result
                    test_indices == Remaining(remaining_indices, val_indices)
                IN [ret |->
                       [outcome |-> "ok",
                        train_set |-> Rebuild(d, Select(items, train_indices)),
                        val_set |-> Rebuild(d, Select(items, val_indices)),
                        test_set |-> Rebuild(d, Select(items, test_indices)),
                        split_indices |->
                            [train_indices |-> train_indices,
                             val_indices |-> val_indices,
                             test_indices |-> test_indices]],
                    rng |-> va.rng]

-----------------------------------------------------------------------------
(* The inputs of the split harness *)

Keys == {"a", "b", "c"}

Vals == {"x", "y"}

\* a dict's value under each key; two keys share a value
ValueOf(k) == IF k = "b" THEN "y" ELSE "x"

SplitLists == {List(s) : s \in SeqsUpTo(Vals, MaxLen)}

SplitDicts ==
    {Dict([i \in 1..Len(ks) |-> <<ks[i], ValueOf(ks[i])>>]) :
        ks \in {s \in SeqsUpTo(Keys, MaxLen) : NoDup(s)}}

Scalars == {None, [kind |-> "int", n |-> 7], [kind |-> "str", chars |-> <<"a">>]}

SplitData == SplitLists \cup SplitDicts \cup Scalars

Ratio(q, e) == [q |-> q, e |-> e]

Triple(a, b, c) == [train |-> a, val |-> b, test |-> c]

QVals == {-50, 0, 4, 50, 96, 100}

\* ratios in whole hundredths whose sum is 1 or 1.04
CoarseTriples ==
    {Triple(Ratio(a, 0), Ratio(b, 0), Ratio(c, 0)) :
        <<a, b, c>> \in {t \in QVals \X QVals \X QVals :
                            t[1] + t[2] + t[3] \in {Den, Den + 4}}}

EVals == {-8, 0, 8}

\* 0.5 + 0.5 + 0 with fine parts on train and val: sums within and beyond
\* the tolerance
FineTriples ==
    {Triple(Ratio(50, x), Ratio(50, y), Ratio(0, 0)) : x \in EVals, y \in EVals}

RatioTriples == CoarseTriples \cup FineTriples

Seeds == 0..(RngMod - 1)

NoRet == [outcome |-> "none"]

-----------------------------------------------------------------------------
(* module json *)

\* the characters with a meaning in JSON text: line feed, backslash, quote
LF == "LF"

BS == "BS"

QT == "QT"

Str(chars) == [kind |-> "str", chars |-> chars]

IntVal(n) == [kind |-> "int", n |-> n]

\* a dict key, which the model holds as one symbol, as a str
KeyStr(k) == Str(<<k>>)

Ints == -1..5

RECURSIVE Concat(_)
Concat(ss) == IF ss = <<>> THEN <<>> ELSE Head(ss) \o Concat(Tail(ss))

\* a character written as it is
EscapeNothing(c) == <<c>>

\* one character of a str as json.dumps writes it
EscapeChar(c) ==
    IF c = LF THEN <<BS, "n">>
    ELSE IF c = BS THEN <<BS, BS>>
    ELSE IF c = QT THEN <<BS, QT>>
    ELSE <<c>>

DumpStr(chars) ==
    <<QT>> \o Concat([i \in 1..Len(chars) |-> EscapeChar(chars[i])]) \o <<QT>>

\* parts joined by ", "
JoinComma(parts) ==
    Concat([i \in 1..Len(parts) |->
               IF i = 1 THEN parts[i] ELSE <<",", " ">> \o parts[i]])

RECURSIVE Dumps(_)
\* json.dumps(v), line 82: one line of text, separators ", " and ": ".
\* json.dump(v, f, indent=2), lines 103-115, writes the same text with
\* white space between its tokens, which is left out.
Dumps(v) ==
    IF v.kind = "str" THEN DumpStr(v.chars)
    ELSE IF v.kind = "int" THEN <<ToString(v.n)>>
    ELSE IF v.kind = "none" THEN <<"null">>
    ELSE IF v.kind = "list"
    THEN <<"[">> \o JoinComma([i \in 1..Len(v.items) |-> Dumps(v.items[i])])
         \o <<"]">>
    ELSE <<"{">>
         \o JoinComma([i \in 1..Len(v.items) |->
                DumpStr(<<v.items[i][1]>>) \o <<":", " ">>
                \o Dumps(v.items[i][2])])
         \o <<"}">>

Bad == [ok |-> FALSE]

Parsed(v, next) == [ok |-> TRUE, val |-> v, next |-> next]

RECURSIVE ParseStrBody(_, _, _)
\* the characters of a str up to its closing quote; s[i] is the next one
ParseStrBody(s, i, acc) ==
    IF i > Len(s) THEN Bad
    ELSE IF s[i] = QT THEN Parsed(Str(acc), i + 1)
    ELSE IF s[i] = LF THEN Bad
    ELSE IF s[i] = BS
    THEN IF i + 1 > Len(s) THEN Bad
         ELSE IF s[i + 1] = "n" THEN ParseStrBody(s, i + 2, Append(acc, LF))
         ELSE IF s[i + 1] = BS THEN ParseStrBody(s, i + 2, Append(acc, BS))
         ELSE IF s[i + 1] = QT THEN ParseStrBody(s, i + 2, Append(acc, QT))
         ELSE Bad
    ELSE ParseStrBody(s, i + 1, Append(acc, s[i]))

RECURSIVE ParseValue(_, _)
RECURSIVE ParseItems(_, _, _)
RECURSIVE ParsePairs(_, _, _)

\* after an item of a list or a dict: its end, or ", " and the next item
ParseItems(s, i, acc) ==
    LET v == ParseValue(s, i)
    IN IF ~v.ok \/ v.next > Len(s) THEN Bad
       ELSE IF s[v.next] = "]" THEN Parsed(List(Append(acc, v.val)), v.next + 1)
       ELSE IF s[v.next] = "," /\ v.next + 1 <= Len(s) /\ s[v.next + 1] = " "
       THEN ParseItems(s, v.next + 2, Append(acc, v.val))
       ELSE Bad

ParsePairs(s, i, acc) ==
    IF i + 1 > Len(s) \/ s[i] # QT THEN Bad
    ELSE
      LET k == ParseStrBody(s, i + 1, <<>>)
      IN IF ~k.ok \/ Len(k.val.chars) # 1 \/ k.next + 2 > Len(s) THEN Bad
         ELSE IF s[k.next] # ":" \/ s[k.next + 1] # " " THEN Bad
         ELSE
           LET v == ParseValue(s, k.next + 2)
               pairs == Append(acc, <<k.val.chars[1], v.val>>)
           IN IF ~v.ok \/ v.next > Len(s) THEN Bad
              ELSE IF s[v.next] = "}" THEN Parsed(Dict(DictOf(pairs)), v.next + 1)
              ELSE IF s[v.next] = "," /\ v.next + 1 <= Len(s)
                      /\ s[v.next + 1] = " "
              THEN ParsePairs(s, v.next + 2, pairs)
              ELSE Bad

ParseValue(s, i) ==
    IF i > Len(s) THEN Bad
    ELSE IF s[i] = QT THEN ParseStrBody(s, i + 1, <<>>)
    ELSE IF s[i] = "null" THEN Parsed(None, i + 1)
    ELSE IF \E n \in Ints : s[i] = ToString(n)
    THEN Parsed(IntVal(CHOOSE n \in Ints : s[i] = ToString(n)), i + 1)
    ELSE IF s[i] = "["
    THEN IF i + 1 <= Len(s) /\ s[i + 1] = "]" THEN Parsed(List(<<>>), i + 2)
         ELSE ParseItems(s, i + 1, <<>>)
    ELSE IF s[i] = "{"
    THEN IF i + 1 <= Len(s) /\ s[i + 1] = "}" THEN Parsed(Dict(<<>>), i + 2)
         ELSE ParsePairs(s, i + 1, <<>>)
    ELSE Bad

\* json.load / json.loads of a whole text: the value, or Bad (JSONDecodeError)
Loads(s) ==
    LET v == ParseValue(s, 1)
    IN IF v.ok /\ v.next = Len(s) + 1 THEN v ELSE Bad

-----------------------------------------------------------------------------
(* organize_conclusion *)

Fine(v) == [err |-> "none", val |-> v]

Err(what) == [err |-> what, val |-> None]

\* v[key] as Python evaluates it
GetItem(v, key) ==
    IF v.kind = "dict"
    THEN IF key.kind = "str" /\ Len(key.chars) = 1
            /\ \E i \in 1..Len(v.items) : v.items[i][1] = key.chars[1]
         THEN Fine(v.items[CHOOSE i \in 1..Len(v.items) :
                             v.items[i][1] = key.chars[1]][2])
         ELSE Err("KeyError")
    ELSE IF v.kind = "list"
    THEN IF key.kind # "int" THEN Err("TypeError")
         ELSE IF key.n >= Len(v.items) \/ key.n < -Len(v.items)
         THEN Err("IndexError")
         ELSE Fine(v.items[(IF key.n < 0 THEN key.n + Len(v.items) ELSE key.n)
                           + 1])
    ELSE IF v.kind = "str"
    THEN IF key.kind # "int" THEN Err("TypeError")
         ELSE IF key.n >= Len(v.chars) \/ key.n < -Len(v.chars)
         THEN Err("IndexError")
         ELSE Fine(Str(<<v.chars[(IF key.n < 0 THEN key.n + Len(v.chars)
                                  ELSE key.n) + 1]>>))
    ELSE Err("TypeError")

\* a lookup that yields an empty value for a missing field
FieldOrEmpty(dataset, entry, field) ==
    LET rec == GetItem(dataset, entry)
        got == IF rec.err # "none" THEN rec ELSE GetItem(rec.val, KeyStr(field))
    IN IF rec.err = "none" /\ got.err = "KeyError"
       THEN Fine(IF field \in {"CONTEXTS", "MESHES"} THEN List(<<>>)
                 ELSE Str(<<>>))
       ELSE got

\* dataset[entry][field], lines 71-80
Field(dataset, entry, field) ==
    LET rec == GetItem(dataset, entry)
    IN IF rec.err # "none" THEN rec ELSE GetItem(rec.val, KeyStr(field))

Iterable(v) == v.kind \in {"dict", "list", "str"}

\* what "for entry in dataset" binds entry to, line 69
Entries(v) ==
    IF v.kind = "dict" THEN [i \in 1..Len(v.items) |-> KeyStr(v.items[i][1])]
    ELSE IF v.kind = "list" THEN v.items
    ELSE [i \in 1..Len(v.chars) |-> Str(<<v.chars[i]>>)]

\* lines 70-73: every context and then the answer, each followed by "\n"
Conclusion(contexts, answer) ==
    Concat([i \in 1..Len(contexts.items) |-> contexts.items[i].chars \o <<LF>>])
    \o answer.chars \o <<LF>>

\* one turn of the loop, lines 70-82: the error it raises, or the line it writes
Turn(dataset, entry) ==
    LET contexts == Field(dataset, entry, "CONTEXTS")
        answer == Field(dataset, entry, "LONG_ANSWER")
        question == Field(dataset, entry, "QUESTION")
        meshes == Field(dataset, entry, "MESHES")
        decision == Field(dataset, entry, "final_decision")
    IN IF contexts.err # "none" THEN [err |-> contexts.err, line |-> <<>>]
       ELSE IF answer.err # "none" THEN [err |-> answer.err, line |-> <<>>]
       ELSE IF question.err # "none" THEN [err |-> question.err, line |-> <<>>]
       ELSE IF meshes.err # "none" THEN [err |-> meshes.err, line |-> <<>>]
       ELSE IF decision.err # "none" THEN [err |-> decision.err, line |-> <<>>]
       ELSE [err |-> "none",
             line |-> Dumps(Dict(<< <<"idx", entry>>,
                                    <<"QUESTION", question.val>>,
                                    <<"CONCLUSION",
                                      Str(Conclusion(contexts.val, answer.val))>>,
                                    <<"TYPE", meshes.val>>,
                                    <<"FINAL_DECISION", decision.val>> >>))
                      \o <<LF>>]

Absent == <<"absent">>

\* open(filename, 'w'), line 68: the file is created or cut to nothing
OpenW(fs, name) == [fs EXCEPT ![name] = <<>>]

\* the file left open when the loop raises
LeakOnError(op, name) == op

\* leaving the with block of line 68 by an error
ExitOnError(op, name) == op \ {name}

\* leaving the with block of line 68 at the end of the loop
ExitAtEnd(op, name) == op \ {name}

flvars == <<fl_dataset, fl_name, fl_pc, fl_i, fl_error>>

splitvars == <<data, ratios, random_seed, ret, first, ncalls, disturbed>>

mainvars == <<pc, failed, log, m_data, m_split>>

FlOpen ==
    /\ fl_pc = "call"
    /\ files' = OpenW(files, fl_name)
    /\ opened' = opened \cup {fl_name}
    /\ fl_pc' = "open"
    /\ fl_i' = 0
    /\ UNCHANGED <<fl_dataset, fl_name, fl_error, rng, splitvars, mainvars>>

\* the error the loop raises with i entries done: at its start when the
\* dataset cannot be iterated, else in the turn of the next entry
RaisesAt(dataset, i) ==
    IF ~Iterable(dataset) THEN "TypeError"
    ELSE IF i < Len(Entries(dataset))
    THEN Turn(dataset, Entries(dataset)[i + 1]).err
    ELSE "none"

\* one turn of the loop that writes its line
FlWrite ==
    /\ fl_pc = "open"
    /\ Iterable(fl_dataset)
    /\ fl_i < Len(Entries(fl_dataset))
    /\ RaisesAt(fl_dataset, fl_i) = "none"
    /\ files' = [files EXCEPT ![fl_name] =
                    @ \o Turn(fl_dataset, Entries(fl_dataset)[fl_i + 1]).line]
    /\ fl_i' = fl_i + 1
    /\ UNCHANGED <<fl_dataset, fl_name, fl_pc, fl_error, opened, rng,
                   splitvars, mainvars>>

\* the loop raises; the with block closes the file on the way out
FlRaise ==
    /\ fl_pc = "open"
    /\ RaisesAt(fl_dataset, fl_i) # "none"
    /\ fl_error' = RaisesAt(fl_dataset, fl_i)
    /\ opened' = ExitOnError(opened, fl_name)
    /\ fl_pc' = "raised"
    /\ UNCHANGED <<fl_dataset, fl_name, fl_i, files, rng, splitvars, mainvars>>

\* the loop is over: the with block closes the file
FlClose ==
    /\ fl_pc = "open"
    /\ Iterable(fl_dataset)
    /\ fl_i = Len(Entries(fl_dataset))
    /\ opened' = ExitAtEnd(opened, fl_name)
    /\ fl_pc' = "done"
    /\ UNCHANGED <<fl_dataset, fl_name, fl_i, fl_error, files, rng,
                   splitvars, mainvars>>

-----------------------------------------------------------------------------
(* The script, lines 87-115 *)

FileNames ==
    {"test_set.json", "data/train_set.json", "haystack.jsonl",
     "data/val_set.json", "data/test_set.json", "needle.jsonl",
     "data/split_indices.json"}

\* the script with every subset dumped before the first flattening
ProgramDumpsFirst ==
    <<"load", "split", "dump_train", "dump_val", "dump_test",
      "flatten_train", "flatten_test", "dump_indices">>

\* the steps of the script in the order of its text
Program ==
    <<"load", "split", "dump_train", "flatten_train", "dump_val",
      "dump_test", "flatten_test", "dump_indices">>

\* the step to run next; "none" once a step raised or the script is over
Step == IF ~failed /\ pc \in 1..Len(Program) THEN Program[pc] ELSE "none"

\* train_ratio=0.96, val_ratio=0.0, test_ratio=0.04, line 4
DefaultRatios ==
    [train |-> [q |-> 96, e |-> 0], val |-> [q |-> 0, e |-> 0],
     test |-> [q |-> 4, e |-> 0]]

IntList(s) == List([i \in 1..Len(s) |-> IntVal(s[i])])

\* lines 89-90: json.load of test_set.json
MainLoad ==
    /\ Step = "load"
    /\ LET v == IF files["test_set.json"] = Absent THEN Bad
                ELSE Loads(files["test_set.json"])
       IN IF v.ok
          THEN /\ m_data' = v.val
               /\ pc' = pc + 1
               /\ log' = Append(log, "load")
               /\ UNCHANGED failed
          ELSE /\ failed' = TRUE
               /\ log' = log \o <<"load", "raise">>
               /\ UNCHANGED <<m_data, pc>>
    /\ UNCHANGED <<m_split, files, opened, rng, splitvars, flvars>>

\* line 93: split_dataset(data) with the default ratios and seed
MainSplit ==
    /\ Step = "split"
    /\ LET r == split_dataset(m_data, DefaultRatios, DefaultSeed, rng)
       IN /\ rng' = r.rng
          /\ IF r.ret.outcome = "ok"
             THEN /\ m_split' = r.ret
                  /\ pc' = pc + 1
                  /\ log' = Append(log, "split")
                  /\ UNCHANGED failed
             ELSE /\ failed' = TRUE
                  /\ log' = log \o <<"split", "raise">>
                  /\ UNCHANGED <<m_split, pc>>
    /\ UNCHANGED <<m_data, files, opened, splitvars, flvars>>

\* lines 102-103: train_set.json is opened and written; it stays open while
\* line 104 runs
MainDumpTrain ==
    /\ Step = "dump_train"
    /\ files' = [files EXCEPT !["data/train_set.json"] = Dumps(m_split.train_set)]
    /\ opened' = opened \cup {"data/train_set.json"}
    /\ pc' = pc + 1
    /\ log' = Append(log, "dump_train")
    /\ UNCHANGED <<failed, m_data, m_split, rng, splitvars, flvars>>

\* lines 106-107
MainDumpVal ==
    /\ Step = "dump_val"
    /\ files' = [files EXCEPT !["data/val_set.json"] = Dumps(m_split.val_set)]
    /\ pc' = pc + 1
    /\ log' = Append(log, "dump_val")
    /\ UNCHANGED <<failed, m_data, m_split, opened, rng, splitvars, flvars>>

\* lines 109-110: test_set.json is opened and written; it stays open while
\* line 111 runs
MainDumpTest ==
    /\ Step = "dump_test"
    /\ files' = [files EXCEPT !["data/test_set.json"] = Dumps(m_split.test_set)]
    /\ opened' = opened \cup {"data/test_set.json"}
    /\ pc' = pc + 1
    /\ log' = Append(log, "dump_test")
    /\ UNCHANGED <<failed, m_data, m_split, rng, splitvars, flvars>>

\* lines 104 and 111: the call of organize_conclusion
MainFlatten ==
    /\ Step \in {"flatten_train", "flatten_test"}
    /\ fl_pc = "idle"
    /\ fl_dataset' = IF Step = "flatten_train" THEN m_split.train_set
                     ELSE m_split.test_set
    /\ fl_name' = IF Step = "flatten_train" THEN "haystack.jsonl"
                  ELSE "needle.jsonl"
    /\ fl_pc' = "call"
    /\ fl_i' = 0
    /\ fl_error' = "none"
    /\ log' = Append(log, Step)
    /\ UNCHANGED <<pc, failed, m_data, m_split, files, opened, rng, splitvars>>

\* organize_conclusion returns or raises; the with block around the call
\* (lines 102 and 109) closes its file either way
MainFlattenReturn ==
    /\ Step \in {"flatten_train", "flatten_test"}
    /\ fl_pc \in {"done", "raised"}
    /\ opened' = opened \ {IF Step = "flatten_train" THEN "data/train_set.json"
                           ELSE "data/test_set.json"}
    /\ IF fl_pc = "done"
       THEN /\ pc' = pc + 1
            /\ UNCHANGED <<failed, log>>
       ELSE /\ failed' = TRUE
            /\ log' = Append(log, "raise")
            /\ UNCHANGED pc
    /\ fl_pc' = "idle"
    /\ UNCHANGED <<fl_dataset, fl_name, fl_i, fl_error, m_data, m_split,
                   files, rng, splitvars>>

\* lines 114-115
MainDumpIndices ==
    /\ Step = "dump_indices"
    /\ files' = [files EXCEPT !["data/split_indices.json"] =
          Dumps(Dict(<< <<"train_indices",
                          IntList(m_split.split_indices.train_indices)>>,
                        <<"val_indices",
                          IntList(m_split.split_indices.val_indices)>>,
                        <<"test_indices",
                          IntList(m_split.split_indices.test_indices)>> >>))]
    /\ pc' = pc + 1
    /\ log' = Append(log, "dump_indices")
    /\ UNCHANGED <<failed, m_data, m_split, opened, rng, splitvars, flvars>>

-----------------------------------------------------------------------------
(* The inputs of organize_conclusion and of the script *)

Fields == {"CONTEXTS", "LONG_ANSWER", "QUESTION", "MESHES", "final_decision"}

Rec(contexts, answer, question, meshes, decision) ==
    Dict(<< <<"QUESTION", question>>, <<"CONTEXTS", List(contexts)>>,
            <<"LONG_ANSWER", answer>>, <<"MESHES", meshes>>,
            <<"final_decision", decision>> >>)

\* a str with the characters JSON escapes
Tricky == Str(<<"a", LF, QT, BS, "n">>)

FullRecords ==
    {Rec(<<Str(<<"A.">>), Str(<<"B.">>)>>, Str(<<"C.">>), Str(<<"Q?">>),
         List(<<Str(<<"x">>)>>), Str(<<"yes">>)),
     Rec(<<>>, Tricky, Str(<<>>), List(<<>>), Str(<<"no">>)),
     Rec(<<Tricky>>, Str(<<"A.">>), Tricky, Tricky, Str(<<"A.">>))}

Without(rec, f) ==
    Dict(SelectSeq(rec.items, LAMBDA p : p[1] # f))

\* records that lack one required field
PartialRecords ==
    {Without(Rec(<<Str(<<"A.">>)>>, Str(<<"C.">>), Str(<<"Q?">>),
                 List(<<Str(<<"x">>)>>), Str(<<"yes">>)), f) : f \in Fields}

Records == FullRecords \cup PartialRecords

IdKeys == {"1", "2", "3"}

RecordDicts ==
    UNION {{Dict([i \in 1..Len(ks) |-> <<ks[i], rs[i]>>]) :
               rs \in [1..Len(ks) -> Records]} :
           ks \in {s \in SeqsUpTo(IdKeys, MaxRecs) : NoDup(s)}}

RecordLists ==
    {List(s) : s \in SeqsUpTo(Records \cup {IntVal(0), IntVal(1), IntVal(5)},
                              MaxRecs)}

JsonScalars == {None, IntVal(5), Str(<<>>), Str(<<"a">>)}

JsonData == RecordDicts \cup RecordLists \cup JsonScalars

\* what the destination may hold before the call
OldContent == <<"old", LF>>

-----------------------------------------------------------------------------
(* The split harness: one dataset, ratios and seed, split again and again *)
(* while other code draws from, and reseeds, the shared generator.        *)

vars ==
    <<data, ratios, random_seed, rng, ret, first, ncalls, disturbed, files,
      opened, fl_dataset, fl_name, fl_pc, fl_i, fl_error, pc, failed, log,
      m_data, m_split>>

NoFiles == [n \in FileNames |-> Absent]

FlIdle ==
    /\ fl_dataset = None
    /\ fl_name = "haystack.jsonl"
    /\ fl_pc = "idle"
    /\ fl_i = 0
    /\ fl_error = "none"

MainIdle ==
    /\ pc = 0
    /\ failed = FALSE
    /\ log = <<>>
    /\ m_data = None
    /\ m_split = NoRet

SplitIdle ==
    /\ data = None
    /\ ratios = DefaultRatios
    /\ random_seed = DefaultSeed
    /\ ret = NoRet
    /\ first = NoRet
    /\ ncalls = 0
    /\ disturbed = FALSE

InitSplit ==
    /\ data \in SplitData
    /\ ratios \in RatioTriples
    /\ random_seed \in Seeds
    /\ rng \in 0..(RngMod - 1)
    /\ ret = NoRet
    /\ first = NoRet
    /\ ncalls = 0
    /\ disturbed = FALSE
    /\ files = NoFiles
    /\ opened = {}
    /\ FlIdle
    /\ MainIdle

\* a call split_dataset(data, train_ratio, val_ratio, test_ratio, random_seed)
SplitCall ==
    /\ ncalls < MaxCalls
    /\ LET r == split_dataset(data, ratios, random_seed, rng)
       IN /\ ret' = r.ret
          /\ first' = IF first = NoRet THEN r.ret ELSE first
          /\ rng' = r.rng
    /\ ncalls' = ncalls + 1
    /\ UNCHANGED <<data, ratios, random_seed, disturbed, files, opened,
                   flvars, mainvars>>

\* other code of the process draws from the generator
OtherDraw ==
    /\ \E s \in 0..(RngMod - 1) : rng' = s
    /\ disturbed' = (ncalls > 0)
    /\ UNCHANGED <<data, ratios, random_seed, ret, first, ncalls, files,
                   opened, flvars, mainvars>>

\* a split of the same data with another seed, its result dropped
SplitOtherSeed ==
    /\ \E s \in Seeds \ {random_seed} :
          rng' = split_dataset(data, ratios, s, rng).rng
    /\ disturbed' = (ncalls > 0)
    /\ UNCHANGED <<data, ratios, random_seed, ret, first, ncalls, files,
                   opened, flvars, mainvars>>

NextSplit == SplitCall \/ OtherDraw \/ SplitOtherSeed

SpecSplit == InitSplit /\ [][NextSplit]_vars

-----------------------------------------------------------------------------
(* organize_conclusion alone, on any dataset *)

InitFlatten ==
    /\ fl_dataset \in JsonData
    /\ fl_name = "haystack.jsonl"
    /\ fl_pc = "call"
    /\ fl_i = 0
    /\ fl_error = "none"
    /\ \E old \in {Absent, OldContent} :
          files = [NoFiles EXCEPT !["haystack.jsonl"] = old]
    /\ opened = {}
    /\ rng = 0
    /\ SplitIdle
    /\ MainIdle

NextFlatten == FlOpen \/ FlWrite \/ FlRaise \/ FlClose

SpecFlatten == InitFlatten /\ [][NextFlatten]_vars

-----------------------------------------------------------------------------
(* The script run on any content of test_set.json *)

InitMain ==
    /\ pc = 1
    /\ failed = FALSE
    /\ log = <<>>
    /\ m_data = None
    /\ m_split = NoRet
    /\ \E content \in {Dumps(v) : v \in JsonData} \cup {Absent} :
          files = [NoFiles EXCEPT !["test_set.json"] = content]
    /\ opened = {}
    /\ rng \in 0..(RngMod - 1)
    /\ SplitIdle
    /\ FlIdle

NextMain ==
    \/ MainLoad
    \/ MainSplit
    \/ MainDumpTrain
    \/ MainFlatten
    \/ FlOpen
    \/ FlWrite
    \/ FlRaise
    \/ FlClose
    \/ MainFlattenReturn
    \/ MainDumpVal
    \/ MainDumpTest
    \/ MainDumpIndices

SpecMain == InitMain /\ [][NextMain]_vars

-----------------------------------------------------------------------------
(* Properties of split_dataset, checked under SpecSplit *)

Called == ret # NoRet

Ok == ret.outcome = "ok"

ListOrDictData == data.kind \in {"list", "dict"}

Total == Len(data.items)

TrainIdx == ret.split_indices.train_indices

ValIdx == ret.split_indices.val_indices

TestIdx == ret.split_indices.test_indices

\* the real number a ratio stands for is not negative
NonNeg(r) == r.q > 0 \/ (r.q = 0 /\ r.e >= 0)

NonNegRatios == NonNeg(ratios.train) /\ NonNeg(ratios.val) /\ NonNeg(ratios.test)

CoarseSum == ratios.train.q + ratios.val.q + ratios.test.q

FineSum == ratios.train.e + ratios.val.e + ratios.test.e

\* the three ratios sum to exactly 1
SumsToOne == CoarseSum = Den /\ FineSum = 0

\* the sum of the three ratios is within 1e-10 of 1
WithinTolerance == CoarseSum = Den /\ FineSum >= -TolUnits /\ FineSum <= TolUnits

\* n = floor(total * r): n <= total * (q/Den + e * 1e-11) < n + 1, where the
\* fine part is smaller than 1/Den and has the sign of e
IsFloor(n, total, r) ==
    /\ \/ n * Den < total * r.q
       \/ n * Den = total * r.q /\ (r.e >= 0 \/ total = 0)
    /\ \/ total * r.q < (n + 1) * Den
       \/ total * r.q = (n + 1) * Den /\ r.e < 0 /\ total > 0

\* C1: for a list or dict and non-negative ratios summing to 1, whatever the
\* draws, split_dataset returns three index lists without duplicates, pairwise
\* disjoint, whose union is 0..len(data)-1; the subsets' lengths add up to
\* len(data).
C1_Partition ==
    (Called /\ ListOrDictData /\ NonNegRatios /\ SumsToOne) =>
        /\ Ok
        /\ NoDup(TrainIdx) /\ NoDup(ValIdx) /\ NoDup(TestIdx)
        /\ Range(TrainIdx) \cap Range(ValIdx) = {}
        /\ Range(TrainIdx) \cap Range(TestIdx) = {}
        /\ Range(ValIdx) \cap Range(TestIdx) = {}
        /\ Range(TrainIdx) \cup Range(ValIdx) \cup Range(TestIdx)
               = 0..(Total - 1)
        /\ Len(ret.train_set.items) + Len(ret.val_set.items)
               + Len(ret.test_set.items) = Total

\* a split of three items into three non-empty parts, drawn out of order
C1_Witness ==
    /\ Called /\ ListOrDictData /\ NonNegRatios /\ SumsToOne /\ Ok
    /\ Total = 3
    /\ TrainIdx = <<2>> /\ ValIdx = <<0>> /\ TestIdx = <<1>>

\* C2: every call with the same data, ratios and seed returns what the first
\* one returned, whatever was drawn from the generator, or split with another
\* seed, in between.
C2_Deterministic == (ncalls >= 2) => ret = first

\* a second call, after other code used the generator, whose draws matter
C2_Witness ==
    /\ ncalls = 2 /\ disturbed /\ Ok
    /\ Total = 3 /\ Len(TrainIdx) = 1 /\ Len(ValIdx) = 1
    /\ rng # random_seed % RngMod

\* C3: for a list or dict and non-negative ratios that pass the ratio check,
\* train has floor(total * train_ratio) items, val has
\* floor(total * val_ratio), test has the rest; val_ratio = 0 gives an empty
\* val, and total = 0 three empty subsets and index lists.
C3_Sizes ==
    (Called /\ ListOrDictData /\ NonNegRatios /\ WithinTolerance) =>
        /\ Ok
        /\ IsFloor(Len(ret.train_set.items), Total, ratios.train)
        /\ IsFloor(Len(ret.val_set.items), Total, ratios.val)
        /\ Len(ret.test_set.items)
               = Total - Len(ret.train_set.items) - Len(ret.val_set.items)
        /\ Len(TrainIdx) = Len(ret.train_set.items)
        /\ Len(ValIdx) = Len(ret.val_set.items)
        /\ Len(TestIdx) = Len(ret.test_set.items)
        /\ (ratios.val.q = 0 /\ ratios.val.e = 0) =>
               (ret.val_set.items = <<>> /\ ValIdx = <<>>)
        /\ (Total = 0) =>
               /\ ret.train_set.items = <<>> /\ TrainIdx = <<>>
               /\ ret.val_set.items = <<>> /\ ValIdx = <<>>
               /\ ret.test_set.items = <<>> /\ TestIdx = <<>>

\* three items at 0.96 / 0 / 0.04: two in train, none in val, one in test
C3_Witness ==
    /\ Called /\ Ok /\ Total = 3
    /\ ratios.train.q = 96 /\ ratios.val.q = 0 /\ ratios.test.q = 4
    /\ Len(ret.train_set.items) = 2
    /\ Len(ret.val_set.items) = 0
    /\ Len(ret.test_set.items) = 1

\* C4: for a list or dict, a ratio sum more than the tolerance away from 1
\* makes split_dataset raise the ratio error and return nothing, and a sum
\* within the tolerance never raises it.
C4_RatioCheck ==
    (Called /\ ListOrDictData) =>
        /\ ~WithinTolerance =>
               (/\ ret.outcome = "RatioError"
                /\ ret.train_set = None /\ ret.val_set = None
                /\ ret.test_set = None /\ ret.split_indices = None)
        /\ WithinTolerance => (ret.outcome # "RatioError")

\* the ratio error on an empty dataset, for a sum off by 1.6e-10 only
C4_Witness ==
    /\ Called /\ ListOrDictData /\ Total = 0
    /\ CoarseSum = Den /\ FineSum = 16
    /\ ret.outcome = "RatioError"

\* C5: a call raises the type error exactly when data is neither a list
\* (ordered sequence) nor a dict (mapping), and then it has neither seeded
\* nor drawn from the generator.
C5_TypeCheck ==
    [][(ncalls' = ncalls + 1) =>
          /\ (ret'.outcome = "TypeError") <=> ~ListOrDictData
          /\ (ret'.outcome = "TypeError") => rng' = rng]_vars

\* the type error, with the generator in a state the seed does not give
C5_Witness ==
    /\ Called /\ ret.outcome = "TypeError"
    /\ data.kind = "str"
    /\ rng # random_seed % RngMod

KeysOf(d) == {d.items[i][1] : i \in 1..Len(d.items)}

\* the items of d at the positions an index list names (counted from 0)
AtPositions(d, indices) ==
    [j \in 1..Len(indices) |-> d.items[indices[j] + 1]]

\* C6: the subsets have the input's representation.  From a dict: three
\* dicts with pairwise disjoint key sets whose union is the input's key set,
\* each holding the input's (key, value) pairs at the positions of its index
\* list.  From a list: three lists with subset[j] = data[indices[j]].
C6_Representation ==
    (Called /\ Ok) =>
        /\ ret.train_set.kind = data.kind
        /\ ret.val_set.kind = data.kind
        /\ ret.test_set.kind = data.kind
        /\ ret.train_set.items = AtPositions(data, TrainIdx)
        /\ ret.val_set.items = AtPositions(data, ValIdx)
        /\ ret.test_set.items = AtPositions(data, TestIdx)
        /\ (data.kind = "dict") =>
               /\ KeysOf(ret.train_set) \cap KeysOf(ret.val_set) = {}
               /\ KeysOf(ret.train_set) \cap KeysOf(ret.test_set) = {}
               /\ KeysOf(ret.val_set) \cap KeysOf(ret.test_set) = {}
               /\ KeysOf(ret.train_set) \cup KeysOf(ret.val_set)
                      \cup KeysOf(ret.test_set) = KeysOf(data)
               /\ Range(ret.train_set.items) \cup Range(ret.val_set.items)
                      \cup Range(ret.test_set.items) = Range(data.items)

\* a dict of three keys split into three dicts of one key each
C6_Witness ==
    /\ Called /\ Ok /\ data.kind = "dict" /\ Total = 3
    /\ Len(ret.train_set.items) = 1
    /\ Len(ret.val_set.items) = 1
    /\ Len(ret.test_set.items) = 1
    /\ TrainIdx # <<0>>

-----------------------------------------------------------------------------
(* Properties of organize_conclusion, checked under SpecFlatten *)

HasFields(rec) ==
    /\ rec.kind = "dict"
    /\ Fields \subseteq {rec.items[i][1] : i \in 1..Len(rec.items)}

\* a mapping whose records all have the required fields
CompleteMapping(d) ==
    /\ d.kind = "dict"
    /\ \A i \in 1..Len(d.items) : HasFields(d.items[i][2])

FieldOf(rec, f) ==
    rec.items[CHOOSE j \in 1..Len(rec.items) : rec.items[j][1] = f][2]

RECURSIVE JoinLines(_)
\* every str of a list, each followed by a line feed
JoinLines(strs) ==
    IF strs = <<>> THEN <<>>
    ELSE Head(strs).chars \o <<LF>> \o JoinLines(Tail(strs))

\* where the lines of a text end: at its line feeds, and after its last
\* character when that is not a line feed
LineEnds(s) ==
    {i \in 1..Len(s) : s[i] = LF}
        \cup (IF s # <<>> /\ s[Len(s)] # LF THEN {Len(s) + 1} ELSE {})

\* the lines of a text, without their line feeds
SplitLines(s) ==
    LET ends == SetToList(LineEnds(s))
    IN [k \in 1..Len(ends) |->
           SubSeq(s, IF k = 1 THEN 1 ELSE ends[k - 1] + 1, ends[k] - 1)]

\* the object the line of the i-th record is to decode to
ExpectedObject(d, i) ==
    LET rec == d.items[i][2]
    IN {<<"idx", Str(<<d.items[i][1]>>)>>,
        <<"QUESTION", FieldOf(rec, "QUESTION")>>,
        <<"TYPE", FieldOf(rec, "MESHES")>>,
        <<"FINAL_DECISION", FieldOf(rec, "final_decision")>>,
        <<"CONCLUSION",
          Str(JoinLines(FieldOf(rec, "CONTEXTS").items)
              \o FieldOf(rec, "LONG_ANSWER").chars \o <<LF>>)>>}

\* C7: for a mapping whose records all have the required fields,
\* organize_conclusion does not raise and leaves one line per record, in
\* the mapping's order, line i decoding to the object with idx, QUESTION,
\* TYPE = MESHES, FINAL_DECISION = final_decision and CONCLUSION = every
\* context then LONG_ANSWER, each followed by a newline.
C7_Lines ==
    CompleteMapping(fl_dataset) =>
        /\ fl_pc # "raised"
        /\ (fl_pc = "done") =>
               LET lines == SplitLines(files[fl_name])
               IN /\ Len(lines) = Len(fl_dataset.items)
                  /\ \A i \in 1..Len(lines) :
                        /\ Loads(lines[i]).ok
                        /\ Loads(lines[i]).val.kind = "dict"
                        /\ Range(Loads(lines[i]).val.items)
                               = ExpectedObject(fl_dataset, i)

\* two records written, the first with line feeds, quotes and backslashes
\* in its strings
C7_Witness ==
    /\ fl_pc = "done" /\ CompleteMapping(fl_dataset)
    /\ Len(fl_dataset.items) = 2
    /\ FieldOf(fl_dataset.items[1][2], "QUESTION") = Tricky
    /\ FieldOf(fl_dataset.items[1][2], "CONTEXTS").items = <<Tricky>>

RECURSIVE LinesUpTo(_, _)
\* the lines of the first k entries of a dataset
LinesUpTo(d, k) ==
    IF k = 0 THEN <<>>
    ELSE LinesUpTo(d, k - 1) \o Turn(d, Entries(d)[k]).line

\* C8: organize_conclusion ends with its file closed, when it returns and
\* when it raises; when the entry at position k raises, the file exists and
\* holds the lines of the entries before k and nothing else, and the error
\* reaches the caller.
C8_Closed ==
    /\ (fl_pc \in {"done", "raised"}) => fl_name \notin opened
    /\ (fl_pc = "raised") =>
           /\ fl_error # "none"
           /\ files[fl_name] # Absent
           /\ files[fl_name] =
                  (IF Iterable(fl_dataset) THEN LinesUpTo(fl_dataset, fl_i)
                   ELSE <<>>)
           /\ Len(SplitLines(files[fl_name])) = fl_i

\* the second record of a mapping raised after the first one's line was written
C8_Witness ==
    /\ fl_pc = "raised" /\ fl_dataset.kind = "dict"
    /\ fl_i = 1 /\ fl_error = "KeyError"
    /\ files[fl_name] # <<>>
    /\ fl_name \notin opened

NotMapping(d) == d.kind # "dict"

LacksField(d) ==
    /\ d.kind = "dict"
    /\ \E i \in 1..Len(d.items) : ~HasFields(d.items[i][2])

EmptySequence(d) ==
    \/ d.kind = "list" /\ d.items = <<>>
    \/ d.kind = "str" /\ d.chars = <<>>

\* C9 as stated: organize_conclusion never completes when its dataset is not
\* a mapping (an empty sequence included) or when a record of a mapping lacks
\* a required field.
C9_AsStated ==
    (NotMapping(fl_dataset) \/ LacksField(fl_dataset)) => fl_pc # "done"

\* C9 as amended: organize_conclusion never completes when its dataset is
\* neither a mapping nor an empty sequence, or when a record of a mapping
\* lacks a required field; on an empty sequence the loop has no turn, and the
\* call completes and leaves an empty file.
C9_Fails ==
    /\ ((NotMapping(fl_dataset) /\ ~EmptySequence(fl_dataset))
        \/ LacksField(fl_dataset)) => fl_pc # "done"
    /\ (EmptySequence(fl_dataset) /\ fl_pc \notin {"call", "idle"}) =>
           (fl_pc # "raised" /\ files[fl_name] = <<>>)

\* a mapping whose second record lacks a field has raised KeyError
C9_Witness ==
    /\ fl_pc = "raised" /\ fl_error = "KeyError"
    /\ LacksField(fl_dataset)
    /\ Len(fl_dataset.items) = 2

-----------------------------------------------------------------------------
(* Properties of the script, checked under SpecMain *)

IsPrefix(s, u) == Len(s) <= Len(u) /\ \A i \in 1..Len(s) : s[i] = u[i]

\* the steps run, without the mark of a raise
StepsRun == SelectSeq(log, LAMBDA e : e # "raise")

Before(i) == {log[j] : j \in 1..(i - 1)}

Finished == ~failed /\ pc = Len(Program) + 1

FlattenCalls == SelectSeq(log, LAMBDA e : e \in {"flatten_train", "flatten_test"})

\* the parts of C10 the script has: the splitter completes before any output
\* is written, the flattener runs twice in a finished run, on the train and
\* then on the test subset and never on val, and nothing runs after a step
\* that raised
C10_Common ==
    /\ \A i \in 1..Len(log) :
          /\ log[i] \in {"dump_train", "dump_val", "dump_test", "dump_indices",
                         "flatten_train", "flatten_test"}
                => ("split" \in Before(i) /\ m_split.outcome = "ok")
          /\ log[i] = "split" => "load" \in Before(i)
          /\ log[i] = "raise" => i = Len(log)
    /\ failed <=> (log # <<>> /\ log[Len(log)] = "raise")
    /\ Finished => FlattenCalls = <<"flatten_train", "flatten_test">>
    /\ Len(FlattenCalls) <= 2
    /\ (fl_pc # "idle") =>
           \/ /\ log[Len(log)] = "flatten_train"
              /\ fl_dataset = m_split.train_set /\ fl_name = "haystack.jsonl"
           \/ /\ log[Len(log)] = "flatten_test"
              /\ fl_dataset = m_split.test_set /\ fl_name = "needle.jsonl"
    /\ \A n \in FileNames \ {"test_set.json"} :
          files[n] # Absent => m_split.outcome = "ok"

\* C10 as stated: load, split, persist the subsets, flatten: train, val and
\* test are all persisted before the flattener is first called.
C10_AsStated ==
    /\ C10_Common
    /\ \A i \in 1..Len(log) :
          log[i] \in {"flatten_train", "flatten_test"}
              => {"dump_train", "dump_val", "dump_test"} \subseteq Before(i)

\* C10 as amended: the steps run in the order load, split, dump train,
\* flatten train, dump val, dump test, flatten test, dump indices: each
\* flattening follows the dump of its own subset, inside the with block that
\* still holds that subset's file open, and the train subset is flattened
\* before val and test are persisted.
C10_Order ==
    /\ C10_Common
    /\ IsPrefix(StepsRun,
                <<"load", "split", "dump_train", "flatten_train", "dump_val",
                  "dump_test", "flatten_test", "dump_indices">>)
    /\ Finished => Len(StepsRun) = 8
    /\ (fl_pc # "idle" /\ fl_name = "haystack.jsonl")
           => "data/train_set.json" \in opened
    /\ (fl_pc # "idle" /\ fl_name = "needle.jsonl")
           => "data/test_set.json" \in opened

\* a finished run whose train subset had a record to flatten
C10_Witness ==
    /\ Finished
    /\ log = <<"load", "split", "dump_train", "flatten_train", "dump_val",
               "dump_test", "flatten_test", "dump_indices">>
    /\ files["haystack.jsonl"] # <<>> /\ files["haystack.jsonl"] # Absent
    /\ files["needle.jsonl"] # <<>> /\ files["needle.jsonl"] # Absent
    /\ opened = {}

=============================================================================
